---- MODULE Spec2Model ----
(***************************************************************************)
(* Video_Sorter (src/main.py): the queue / log / undo state machine of the *)
(* VideoLabeler window, with the filesystem and the CSV log it acts on.    *)
(*                                                                         *)
(* A pathlib.Path of a file is a record                                    *)
(*     [parent, stem, tag, suffix]                                         *)
(* parent is the sequence of directory components ("/" first when the path *)
(* is absolute), stem and suffix are Path.stem / Path.suffix, and tag is   *)
(* the digit sequence NNN of a "__NNN" collision counter that              *)
(* ensure_unique_path appended to the stem (<<>> when there is none).      *)
(* A directory path is its sequence of components.                         *)
(***************************************************************************)
EXTENDS Integers, Sequences, FiniteSets, TLC

VARIABLES
    phase,            \* "boot": process not running; "run": window constructed
    move_mode,        \* args.mode: "move" or "copy"
    sorted_root_arg,  \* args.sorted_root: a directory path, or NoDir for None
    labels,           \* self.labels: the list load_labels returned
    files,            \* filesystem: existing file path |-> [kind, data]
    dirs,             \* filesystem: set of existing label directories
    log_exists,       \* self.log_path.exists()
    log,              \* rows of the CSV log file, header first
    queue,            \* self.queue
    current_path,     \* self.current_path (None when there is none)
    undo_stack,       \* self.undo_stack: sequence of <<original, dest>>
    player_source,    \* the file the QMediaPlayer has loaded (None: QUrl())
    media_pending,    \* the player may still report InvalidMedia for that file
    scrubbing,        \* self.scrubbing
    duration_ms,      \* self.duration_ms
    slider_value,     \* self.seek_slider.value()
    slider_max,       \* self.seek_slider.maximum()
    dragging,         \* history: the user holds the slider (pressed, not yet released)
    seek,             \* history: the player.setPosition call of the last handler
    last,             \* history: the handler that ran last and what it acted on
    log0,             \* history: the log rows right after construction
    skipped,          \* history: paths skip_current has logged this session
    snap,             \* history: state before a classify that is being round-tripped
    run,              \* history: the labels in a row, and the undos that followed them
    fs_op,            \* history: what the player held when the last handler moved a file
    sess              \* history: the initial queue and the successful actions since

vars == <<phase, move_mode, sorted_root_arg, labels, files, dirs, log_exists, log,
          queue, current_path, undo_stack, player_source, media_pending, last, log0, skipped, snap,
          run, fs_op, sess, scrubbing, duration_ms, slider_value, slider_max, dragging,
          seek>>

(***************************************************************************)
(* Bounds of the model                                                     *)
(***************************************************************************)
\* How many video files the source directory holds when the program starts.
MaxVideos == 2

\* the longest media, and the largest position the player notifies, in ms
MaxPos == 2

(***************************************************************************)
(* Paths                                                                   *)
(***************************************************************************)
MkPath(parent, stem, suffix) ==
    [parent |-> parent, stem |-> stem, tag |-> <<>>, suffix |-> suffix]

\* Python's None where a Path is expected (self.current_path, QUrl()).
None == [parent |-> <<>>, stem |-> "None", tag |-> <<>>, suffix |-> ""]

\* args.sorted_root = None
NoDir == <<"None">>

\* Path.is_absolute()
is_absolute(dir) == Len(dir) > 0 /\ dir[1] = "/"

\* sorted_root / dest : joining two directory paths
JoinDir(base, rel) == base \o rel

\* Path.parent of a directory path
ParentDir(dir) == SubSeq(dir, 1, Len(dir) - 1)

\* dest_dir / self.current_path.name
JoinName(dir, path) == [path EXCEPT !.parent = dir]

\* args.source, and the label configuration file's records
SourceDir == <<"/", "P", "src">>
SortedRootOption == <<"/", "out">>
Config == << [key |-> "1", name |-> "keep", dest |-> <<"keep">>],
             [key |-> "2", name |-> "junk", dest |-> <<"/", "abs", "junk">>] >>

SUPPORTED_EXTENSIONS == {".mp4", ".mov", ".avi", ".mkv", ".mpg", ".mpeg", ".wmv"}

\* str.lower() on the suffixes that occur
Lower(s) ==
    CASE s = ".MP4" -> ".mp4"
      [] s = ".Mov" -> ".mov"
      [] OTHER -> s

(***************************************************************************)
(* load_labels and the sorted root chosen in main                          *)
(***************************************************************************)
\* main: sorted_root = args.sorted_root or source_dir.parent / "sorted"
sorted_root(arg, source_dir) ==
    IF arg # NoDir THEN arg ELSE JoinDir(ParentDir(source_dir), <<"sorted">>)

load_labels(config, root) ==
    [i \in 1..Len(config) |->
        [key  |-> config[i].key,
         name |-> config[i].name,
         dest |-> IF is_absolute(config[i].dest)
                  THEN config[i].dest
                  ELSE JoinDir(root, config[i].dest)]]

(***************************************************************************)
(* ensure_unique_path                                                      *)
(***************************************************************************)
\* Path.exists()
exists(p) == p \in DOMAIN files

RECURSIVE Digits(_)
Digits(n) == IF n < 10 THEN <<n>> ELSE Digits(n \div 10) \o <<n % 10>>

RECURSIVE ZeroPad(_, _)
ZeroPad(s, w) == IF Len(s) >= w THEN s ELSE ZeroPad(<<0>> \o s, w)

\* the width of the format "{counter:03d}"
PadWidth == 3

\* f"{counter:03d}"
Format03d(counter) == ZeroPad(Digits(counter), PadWidth)

\* parent / f"{stem}__{counter:03d}{suffix}"
Candidate(dest_path, counter) == [dest_path EXCEPT !.tag = Format03d(counter)]

RECURSIVE FirstFree(_, _)
FirstFree(dest_path, counter) ==
    IF ~exists(Candidate(dest_path, counter))
    THEN Candidate(dest_path, counter)
    ELSE FirstFree(dest_path, counter + 1)

\* a variant that does not look for a free name
ensure_unique_path_overwriting(dest_path) == dest_path

ensure_unique_path(dest_path) ==
    IF ~exists(dest_path) THEN dest_path ELSE FirstFree(dest_path, 1)

(***************************************************************************)
(* The CSV log                                                             *)
(***************************************************************************)
\* a row without its timestamp cell (datetime.utcnow() is not modelled)
Row(key, label, original, dest, action) ==
    [key |-> key, label |-> label, original_path |-> original,
     dest_path |-> dest, action |-> action]

\* the header row, its path cells read the way a Path would read them
Header == Row("key", "label", MkPath(<<>>, "original_path", ""),
              MkPath(<<>>, "dest_path", ""), "action")

\* csv.DictReader: the first row names the fields, the others are data
DataRows(rows) == IF rows = <<>> THEN <<>> ELSE Tail(rows)

\* Path("") compares equal to no file; row.get("original_path") is falsy
EmptyCell == MkPath(<<>>, "", "")

read_logged_paths(present, rows) ==
    IF ~present THEN {}
    ELSE {DataRows(rows)[i].original_path : i \in
            {j \in 1..Len(DataRows(rows)) : DataRows(rows)[j].original_path # EmptyCell}}

(***************************************************************************)
(* build_queue                                                             *)
(***************************************************************************)
\* source_dir.iterdir()
iterdir(dir) == {p \in DOMAIN files : p.parent = dir}

\* Path.is_file()
is_file(p) == exists(p) /\ files[p].kind = "file"

\* Path.__lt__ on the entries of one directory: the order of their names
NameRank(p) ==
    CASE p.stem = "B" -> 1
      [] p.stem = "a" -> 2
      [] p.stem = "c" -> 3
      [] p.stem = "notes" -> 4
      [] p.stem = "sub" -> 5
      [] OTHER -> 6

PathLess(p, q) == NameRank(p) < NameRank(q)

\* sorted(...)
RECURSIVE sorted(_)
sorted(S) ==
    IF S = {} THEN <<>>
    ELSE LET m == CHOOSE x \in S : \A y \in S \ {x} : PathLess(x, y)
         IN <<m>> \o sorted(S \ {m})

\* a variant that compares the suffix without lower-casing it
RECURSIVE KeepUnloggedCaseSensitive(_, _)
KeepUnloggedCaseSensitive(paths, logged) ==
    IF paths = <<>> THEN <<>>
    ELSE LET path == Head(paths)
             rest == KeepUnloggedCaseSensitive(Tail(paths), logged)
         IN IF is_file(path) /\ path.suffix \in SUPPORTED_EXTENSIONS
            THEN IF path \in logged THEN rest ELSE <<path>> \o rest
            ELSE rest

RECURSIVE KeepUnlogged(_, _)
KeepUnlogged(paths, logged) ==
    IF paths = <<>> THEN <<>>
    ELSE LET path == Head(paths)
             rest == KeepUnlogged(Tail(paths), logged)
         IN IF is_file(path) /\ Lower(path.suffix) \in SUPPORTED_EXTENSIONS
            THEN IF path \in logged THEN rest ELSE <<path>> \o rest
            ELSE rest

build_queue ==
    KeepUnlogged(sorted(iterdir(SourceDir)), read_logged_paths(log_exists, log))

(***************************************************************************)
(* Filesystem primitives                                                   *)
(***************************************************************************)
\* the directories Path.mkdir(parents=True, exist_ok=True) makes exist
Ancestors(dir) == {SubSeq(dir, 1, k) : k \in 1..Len(dir)}

mkdir(dir) == dirs \cup Ancestors(dir)

\* shutil.copy2(src, dst): dst holds what src holds, src stays
copy2(src, dst) ==
    [p \in DOMAIN files \cup {dst} |-> IF p = dst THEN files[src] ELSE files[p]]

\* shutil.move(src, dst): dst holds what src held, src is gone
move(src, dst) ==
    [p \in (DOMAIN files \ {src}) \cup {dst} |-> IF p = dst THEN files[src] ELSE files[p]]

(***************************************************************************)
(* Initial states: the process is not running yet; the command line, the   *)
(* source directory, the destination directory and the log vary.           *)
(***************************************************************************)
VideoA == MkPath(SourceDir, "a", ".mp4")
VideoB == MkPath(SourceDir, "B", ".MP4")
VideoC == MkPath(SourceDir, "c", ".mov")
Notes  == MkPath(SourceDir, "notes", ".txt")
SubDir == MkPath(SourceDir, "sub", ".mp4")
Videos == {VideoA, VideoB, VideoC}

\* the directory of label "keep" for a given --sorted-root
KeepDir(arg) == load_labels(Config, sorted_root(arg, SourceDir))[1].dest

\* files already in the destination before the first run
OldFiles(arg) ==
    { {},
      {JoinName(KeepDir(arg), VideoA)},
      {JoinName(KeepDir(arg), VideoA), Candidate(JoinName(KeepDir(arg), VideoA), 1)} }

\* logs an earlier run may have left: none, the header alone, or the header
\* and the row of a skipped video that is still in the source directory
OldLogs(videos) ==
    { <<>>, <<Header>> } \cup
    (IF VideoB \in videos
     THEN { <<Header, Row("", "skip", VideoB, VideoB, "skip")>> }
     ELSE {})

NoEvent == [op |-> "init", path |-> None, target |-> None]
NoSnap == [valid |-> FALSE, current |-> None, queue |-> <<>>, log |-> <<>>,
           files |-> <<>>, dirs |-> {}]

\* no run of labels is being followed
NoRun == [valid |-> FALSE, k |-> 0, u |-> 0, pairs |-> <<>>, log |-> <<>>,
          files |-> <<>>, stack |-> <<>>]

\* the session is not, or no longer, one of successful labels and skips only
NoSess == [valid |-> FALSE, queue0 |-> <<>>, n |-> 0]

\* one more successful label or skip in such a session
Advance(s) == IF s.valid THEN [s EXCEPT !.n = s.n + 1] ELSE NoSess

\* the handler did not call player.setPosition
NoSeek == [issued |-> FALSE, to |-> 0]

\* the handler called no shutil function
NoFsOp == [done |-> FALSE, before |-> None, during |-> None]

InitFiles(videos, old) ==
    [p \in videos \cup {Notes, SubDir} \cup old |->
        IF p = SubDir THEN [kind |-> "dir", data |-> "sub"]
        ELSE IF p \in old THEN [kind |-> "file", data |-> "old"]
        ELSE [kind |-> "file", data |-> p.stem]]

Init ==
    /\ phase = "boot"
    /\ move_mode \in {"move", "copy"}
    /\ sorted_root_arg \in {NoDir, SortedRootOption}
    /\ labels = <<>>
    /\ \E videos \in SUBSET Videos, old \in OldFiles(sorted_root_arg) :
          /\ Cardinality(videos) <= MaxVideos
          /\ files = InitFiles(videos, old)
          /\ dirs = Ancestors(SourceDir) \cup
                    (IF old = {} THEN {} ELSE Ancestors(KeepDir(sorted_root_arg)))
          /\ \E rows \in OldLogs(videos) :
                /\ log_exists = (rows # <<>>)
                /\ log = rows
    /\ queue = <<>>
    /\ current_path = None
    /\ undo_stack = <<>>
    /\ player_source = None
    /\ media_pending = FALSE
    /\ last = NoEvent
    /\ log0 = <<>>
    /\ skipped = {}
    /\ snap = NoSnap
    /\ run = NoRun
    /\ fs_op = NoFsOp
    /\ sess = NoSess
    /\ scrubbing = FALSE
    /\ duration_ms = 0
    /\ slider_value = 0
    /\ slider_max = 0
    /\ dragging = FALSE
    /\ seek = NoSeek

(***************************************************************************)
(* Methods of VideoLabeler                                                 *)
(***************************************************************************)
Event(op, path, target) == [op |-> op, path |-> path, target |-> target]

\* a variant that writes the header whether or not the file exists
ensure_log_header_always(present, rows) == <<Header>>

\* ensure_log_header: the rows of the log file after the call
ensure_log_header(present, rows) == IF present THEN rows ELSE <<Header>>

\* log_action: the rows of the log file after the call
log_action(key, label, original, dest, action) ==
    Append(log, Row(key, label, original, dest, action))

\* remove_last_log_entry: the rows of the log file after the call
remove_last_log_entry(present, rows) ==
    IF ~present THEN rows
    ELSE IF Len(rows) <= 1 THEN rows
    ELSE SubSeq(rows, 1, Len(rows) - 1)

\* a variant that does not clear the player's source
release_media_keeps_source == player_source

\* release_media: the file the player holds after the call (setSource(QUrl()))
release_media == None

\* a shutil call made when the handler was entered with the player holding
\* `before` and the player holding `during` at the time of the call
\* release_media: the controls it resets (the slider to 0, duration_ms,
\* scrubbing); it leaves the range of the slider as it is
release_controls ==
    /\ slider_value' = 0
    /\ duration_ms' = 0
    /\ scrubbing' = FALSE
    /\ seek' = NoSeek
    /\ UNCHANGED <<slider_max, dragging>>

\* a handler that does not call release_media leaves the controls alone
controls_kept ==
    /\ seek' = NoSeek
    /\ UNCHANGED <<scrubbing, duration_ms, slider_value, slider_max, dragging>>

FsOp(before, during) == [done |-> TRUE, before |-> before, during |-> during]

\* load_next on queue q while the player holds src
\* a variant that takes the item at the right end of the queue
load_next_from_right(q, src) ==
    IF q = <<>>
    THEN /\ current_path' = None
         /\ queue' = q
         /\ player_source' = src
         /\ media_pending' = FALSE
    ELSE /\ current_path' = q[Len(q)]
         /\ queue' = SubSeq(q, 1, Len(q) - 1)
         /\ player_source' = q[Len(q)]
         /\ media_pending' = TRUE

load_next(q, src) ==
    IF q = <<>>
    THEN /\ current_path' = None
         /\ queue' = q
         /\ player_source' = src
         /\ media_pending' = FALSE
    ELSE /\ current_path' = Head(q)
         /\ queue' = Tail(q)
         /\ player_source' = Head(q)
         /\ media_pending' = TRUE

\* main followed by VideoLabeler.__init__
Startup ==
    /\ phase = "boot"
    /\ phase' = "run"
    /\ dirs' = mkdir(SourceDir)
    /\ labels' = load_labels(Config, sorted_root(sorted_root_arg, SourceDir))
    /\ undo_stack' = <<>>
    /\ load_next(build_queue, None)
    /\ log' = ensure_log_header(log_exists, log)
    /\ log_exists' = TRUE
    /\ log0' = log'
    /\ skipped' = {}
    /\ snap' = NoSnap
    /\ run' = NoRun
    /\ fs_op' = NoFsOp
    /\ sess' = [valid |-> TRUE, queue0 |-> build_queue, n |-> 0]
    /\ controls_kept
    /\ last' = Event("startup", None, None)
    /\ UNCHANGED <<move_mode, sorted_root_arg, files>>

skip_current ==
    /\ phase = "run"
    /\ IF current_path = None
       THEN /\ sess' = sess
            /\ controls_kept
            /\ last' = Event("skip_none", None, None)
            /\ snap' = NoSnap
            /\ UNCHANGED <<log, queue, current_path, player_source, media_pending,
                           skipped>>
       ELSE /\ log' = log_action("", "skip", current_path, current_path, "skip")
            /\ load_next(queue, release_media)
            /\ skipped' = skipped \cup {current_path}
            /\ snap' = NoSnap
            /\ sess' = Advance(sess)
            /\ release_controls
            /\ last' = Event("skip", current_path, current_path)
    /\ run' = NoRun
    /\ fs_op' = NoFsOp
    /\ UNCHANGED <<phase, move_mode, sorted_root_arg, labels, files, dirs, log_exists,
                   undo_stack, log0>>

\* the outcomes of a shutil.move / shutil.copy2 call: it succeeds, or it raises
\* PermissionError (the file is locked by another process)
Outcomes == {"ok", "denied"}

\* a variant that moves the file whatever the mode
transfer_always_moves(src, target) == move(src, target)

\* the filesystem after a successful transfer of src to target
transfer(src, target) ==
    IF move_mode = "copy" THEN copy2(src, target) ELSE move(src, target)

\* label_current after the move or copy succeeded
label_succeeded(label, target) ==
    /\ files' = transfer(current_path, target)
    /\ undo_stack' = Append(undo_stack, <<current_path, target>>)
    /\ log' = log_action(label.key, label.name, current_path, target, move_mode)
    /\ load_next(queue, release_media)

\* a variant that leaves the player empty after the warning
label_denied_not_reloaded ==
    /\ player_source' = None
    /\ media_pending' = FALSE
    /\ UNCHANGED <<files, undo_stack, log, queue, current_path>>

\* label_current's handler of PermissionError
label_denied ==
    /\ player_source' = current_path
    /\ media_pending' = TRUE
    /\ UNCHANGED <<files, undo_stack, log, queue, current_path>>

label_current(label) ==
    /\ phase = "run"
    /\ IF current_path = None
       THEN /\ sess' = sess
            /\ controls_kept
            /\ last' = Event("label_none", None, None)
            /\ snap' = NoSnap
            /\ run' = NoRun
            /\ fs_op' = NoFsOp
            /\ UNCHANGED <<files, dirs, log, queue, current_path, undo_stack,
                           player_source, media_pending>>
       ELSE LET dest_dir == label.dest
                target == ensure_unique_path(JoinName(dest_dir, current_path))
            IN /\ dirs' = mkdir(dest_dir)
               /\ fs_op' = FsOp(player_source, release_media)
               /\ \E outcome \in Outcomes :
                     IF outcome = "ok"
                     THEN /\ label_succeeded(label, target)
                          /\ snap' = IF snap.valid /\ last.op = "undo"
                                     THEN snap
                                     ELSE [valid |-> TRUE, current |-> current_path,
                                           queue |-> queue, log |-> log,
                                           files |-> files, dirs |-> dirs]
                          /\ run' = IF run.valid /\ run.u = 0
                                    THEN [run EXCEPT
                                            !.k = run.k + 1,
                                            !.pairs = Append(run.pairs,
                                                             <<current_path, target>>)]
                                    ELSE [valid |-> TRUE, k |-> 1, u |-> 0,
                                          pairs |-> << <<current_path, target>> >>,
                                          log |-> log, files |-> files,
                                          stack |-> undo_stack]
                          /\ sess' = Advance(sess)
                          /\ release_controls
                          /\ last' = Event("label", current_path, target)
                     ELSE /\ label_denied
                          /\ snap' = NoSnap
                          /\ run' = NoRun
                          /\ sess' = NoSess
                          /\ release_controls
                          /\ last' = Event("label_perm", current_path, target)
    /\ UNCHANGED <<phase, move_mode, sorted_root_arg, labels, log_exists, log0, skipped>>

\* a variant that takes the oldest entry
top_entry_oldest(stack) == stack[1]

\* the entry self.undo_stack.pop() returns
top_entry(stack) == stack[Len(stack)]

\* a variant that leaves the entry on the stack
after_pop_kept(stack) == stack

\* the undo stack after self.undo_stack.pop()
after_pop(stack) == SubSeq(stack, 1, Len(stack) - 1)

\* a variant that calls release_media before looking at the stack
nothing_to_undo_releases ==
    /\ player_source' = release_media
    /\ UNCHANGED <<files, dirs, log, queue, undo_stack, media_pending>>

\* undo_last when the undo stack is empty: "Nothing to undo."
nothing_to_undo ==
    UNCHANGED <<files, dirs, log, queue, undo_stack, player_source, media_pending>>

undo_last ==
    /\ phase = "run"
    /\ IF undo_stack = <<>>
       THEN /\ sess' = sess
            /\ controls_kept
            /\ last' = Event("undo_none", None, None)
            /\ snap' = NoSnap
            /\ run' = NoRun
            /\ fs_op' = NoFsOp
            /\ nothing_to_undo
       ELSE LET original == top_entry(undo_stack)[1]
                dest == top_entry(undo_stack)[2]
            IN /\ undo_stack' = after_pop(undo_stack)
               /\ fs_op' = IF exists(dest)
                           THEN FsOp(player_source, release_media)
                           ELSE NoFsOp
               /\ \E outcome \in (IF exists(dest) THEN Outcomes ELSE {"ok"}) :
                     IF outcome = "ok"
                     THEN /\ IF exists(dest)
                             THEN /\ dirs' = mkdir(dest.parent)
                                  /\ files' = move(dest, original)
                             ELSE UNCHANGED <<files, dirs>>
                          /\ log' = remove_last_log_entry(log_exists, log)
                          /\ queue' = <<original>> \o queue
                          /\ player_source' = original
                          /\ media_pending' = TRUE
                          /\ snap' = IF last.op = "label" THEN snap ELSE NoSnap
                          /\ run' = IF run.valid /\ run.u < run.k
                                    THEN [run EXCEPT !.u = run.u + 1]
                                    ELSE NoRun
                          /\ sess' = NoSess
                          /\ release_controls
                          /\ last' = Event("undo", original, dest)
                     ELSE \* the exception leaves the slot after release_media,
                          \* the pop and the mkdir
                          /\ dirs' = mkdir(dest.parent)
                          /\ player_source' = release_media
                          /\ media_pending' = FALSE
                          /\ snap' = NoSnap
                          /\ run' = NoRun
                          /\ sess' = NoSess
                          /\ release_controls
                          /\ last' = Event("undo_fail", original, dest)
                          /\ UNCHANGED <<files, log, queue>>
    /\ UNCHANGED <<phase, move_mode, sorted_root_arg, labels, log_exists, current_path,
                   log0, skipped>>

\* handle_media_status(InvalidMedia): the player reports, once for a file it
\* was given, that the file cannot be played
handle_media_status ==
    /\ phase = "run"
    /\ player_source # None
    /\ media_pending
    /\ load_next(queue, player_source)
    /\ snap' = NoSnap
    /\ run' = NoRun
    /\ fs_op' = NoFsOp
    /\ sess' = NoSess
    /\ controls_kept
    /\ last' = Event("invalid_media", player_source, None)
    /\ UNCHANGED <<phase, move_mode, sorted_root_arg, labels, files, dirs, log_exists,
                   log, undo_stack, log0, skipped>>

\* what the slider and the notifications of the player leave alone
kept_by_playback ==
    <<phase, move_mode, sorted_root_arg, labels, files, dirs, log_exists, log, queue,
      current_path, undo_stack, player_source, media_pending, log0, skipped, snap,
      run, fs_op, sess>>

Min(a, b) == IF a <= b THEN a ELSE b

\* sliderPressed: the user takes hold of the slider
on_slider_pressed ==
    /\ phase = "run"
    /\ ~dragging
    /\ dragging' = TRUE
    /\ scrubbing' = TRUE
    /\ seek' = NoSeek
    /\ last' = Event("slider_pressed", None, None)
    /\ UNCHANGED <<duration_ms, slider_value, slider_max, kept_by_playback>>

\* sliderMoved: the user drags the slider to value; the handler only writes
\* the time label
on_slider_moved(value) ==
    /\ phase = "run"
    /\ dragging
    /\ value # slider_value
    /\ slider_value' = value
    /\ seek' = NoSeek
    /\ last' = Event("slider_moved", None, None)
    /\ UNCHANGED <<scrubbing, duration_ms, slider_max, dragging, kept_by_playback>>

\* sliderReleased: the user lets go of the slider
on_slider_released ==
    /\ phase = "run"
    /\ dragging
    /\ dragging' = FALSE
    /\ seek' = IF duration_ms > 0
               THEN [issued |-> TRUE, to |-> slider_value]
               ELSE NoSeek
    /\ scrubbing' = FALSE
    /\ last' = Event("slider_released", None, None)
    /\ UNCHANGED <<duration_ms, slider_value, slider_max, kept_by_playback>>

\* positionChanged: the player notifies its position; QSlider.setValue keeps
\* the value within the range of the slider
update_position(position) ==
    /\ phase = "run"
    /\ player_source = None => position = 0
    /\ slider_value' = IF scrubbing THEN slider_value ELSE Min(position, slider_max)
    /\ seek' = NoSeek
    /\ last' = Event("position", None, None)
    /\ UNCHANGED <<scrubbing, duration_ms, slider_max, dragging, kept_by_playback>>

\* durationChanged: the player notifies the duration of its media;
\* QSlider.setRange keeps the value within the new range
update_duration(duration) ==
    /\ phase = "run"
    /\ player_source = None => duration = 0
    /\ duration_ms' = duration
    /\ slider_max' = duration
    /\ slider_value' = Min(slider_value, duration)
    /\ seek' = NoSeek
    /\ last' = Event("duration", None, None)
    /\ UNCHANGED <<scrubbing, dragging, kept_by_playback>>

Next ==
    \/ Startup
    \/ \E i \in 1..Len(labels) : label_current(labels[i])
    \/ skip_current
    \/ undo_last
    \/ handle_media_status

Spec == Init /\ [][Next]_vars

\* One session with its playback: two videos in move mode, no earlier log,
\* and the slider and the notifications of the player next to the key presses.
ScrubInit ==
    /\ Init
    /\ move_mode = "move"
    /\ sorted_root_arg = NoDir
    /\ files = InitFiles({VideoA, VideoB}, {})
    /\ ~log_exists

ScrubNext ==
    \/ Next
    \/ on_slider_pressed
    \/ \E value \in 0..slider_max : on_slider_moved(value)
    \/ on_slider_released
    \/ \E position \in 0..MaxPos : update_position(position)
    \/ \E duration \in 0..MaxPos : update_duration(duration)

ScrubSpec == ScrubInit /\ [][ScrubNext]_vars

(***************************************************************************)
(* Properties                                                              *)
(***************************************************************************)
Range(f) == {f[i] : i \in DOMAIN f}

\* the items waiting for a label, the current one first
Work(cur, q) == IF cur = None THEN q ELSE <<cur>> \o q

\* p is the original_path of a data row of the log file
Logged(p) == log_exists /\ \E i \in 2..Len(log) : log[i].original_path = p

\* the regular files of the source directory with a supported extension
\* (whatever the case of its letters) that no log row names
Offered ==
    {p \in DOMAIN files :
        /\ p.parent = SourceDir
        /\ files[p].kind = "file"
        /\ Lower(p.suffix) \in SUPPORTED_EXTENSIONS
        /\ ~Logged(p)}

\* C4: the queue built at startup holds exactly the regular files of the
\* source directory with a supported extension (case-insensitively) that the
\* log does not name as original_path, each once, in sorted order.
C4_QueueConstruction ==
    [][last'.op = "startup" =>
        LET built == Work(current_path', queue')
        IN /\ Range(built) = Offered
           /\ \A i, j \in 1..Len(built) : i < j => PathLess(built[i], built[j])]_vars

\* C4 happens: a start that offers a.mp4 and leaves out B.MP4, which is in the
\* source directory and in the log
C4_Witness ==
    /\ last.op = "startup"
    /\ current_path = VideoA
    /\ VideoB \in DOMAIN files
    /\ Logged(VideoB)

\* the three digits NNN of counter k < 1000
NNN(k) == <<k \div 100, (k \div 10) % 10, k % 10>>

\* s comes before t in lexicographic order
LexLess(s, t) ==
    \E i \in 1..Len(t) :
        /\ \A j \in 1..(i - 1) : j <= Len(s) /\ s[j] = t[j]
        /\ (i > Len(s) \/ s[i] < t[i])

\* the counters the property looks at
Counters == 1..9

\* C5: a successful label_current replaces no file that already exists; the
\* path it writes is the bare destination path if that is free, otherwise
\* the lexicographically first unused stem__NNN.ext, NNN counting from 001.
C5_CollisionSafety ==
    [][last'.op = "label" =>
        LET target == last'.target
            bare == [target EXCEPT !.tag = <<>>]
        IN /\ target \notin DOMAIN files
           /\ \A p \in DOMAIN files \ {last'.path} :
                 p \in DOMAIN files' /\ files'[p] = files[p]
           /\ bare.parent \in {labels[i].dest : i \in 1..Len(labels)}
           /\ bare = JoinName(bare.parent, last'.path)
           /\ IF bare \notin DOMAIN files
              THEN target = bare
              ELSE /\ \E k \in Counters : target.tag = NNN(k)
                   /\ \A k \in Counters :
                         [bare EXCEPT !.tag = NNN(k)] \notin DOMAIN files
                            => ~LexLess(NNN(k), target.tag)]_vars

\* C5 happens: a.mp4 and a__001.mp4 were in the destination, the file went
\* to a__002.mp4 and the two old files are still what they were
C5_Witness ==
    /\ last.op = "label"
    /\ last.target.tag = <<0, 0, 2>>
    /\ [last.target EXCEPT !.tag = <<>>] \in DOMAIN files
    /\ files[[last.target EXCEPT !.tag = <<>>]].data = "old"
    /\ files[[last.target EXCEPT !.tag = <<0, 0, 1>>]].data = "old"

\* C6: when the move or copy of label_current fails with a permission
\* error, the current item stays and is loaded in the player again, the
\* queue, the undo stack and the log are unchanged, the source file is still
\* at its original path, and the next label or skip key acts on that item.
C6_PermissionFailure ==
    [][/\ last'.op = "label_perm" =>
            /\ current_path' = current_path
            /\ last'.path = current_path
            /\ player_source' = current_path
            /\ queue' = queue
            /\ undo_stack' = undo_stack
            /\ log' = log
            /\ current_path \in DOMAIN files'
            /\ files'[current_path] = files[current_path]
       /\ (last.op = "label_perm" /\ last'.op \in {"label", "label_perm", "skip"}) =>
            last'.path = last.path]_vars

\* C6 happens: a refused move, after an earlier label that can be undone;
\* the item is still current and loaded
C6_Witness ==
    /\ last.op = "label_perm"
    /\ current_path = last.path
    /\ player_source = current_path
    /\ current_path \in DOMAIN files
    /\ undo_stack # <<>>

\* C8: after a successful label_current the file is at the destination; in
\* copy mode it is also still at its source path, in move mode it is not;
\* the action of the log row is the mode.
C8_ModeFidelity ==
    [][last'.op = "label" =>
        LET src == last'.path
            target == last'.target
        IN /\ src \in DOMAIN files
           /\ target \in DOMAIN files'
           /\ files'[target] = files[src]
           /\ move_mode = "copy" => (src \in DOMAIN files' /\ files'[src] = files[src])
           /\ move_mode = "move" => src \notin DOMAIN files'
           /\ log'[Len(log')].action = move_mode
           /\ log'[Len(log')].original_path = src
           /\ log'[Len(log')].dest_path = target]_vars

\* C8 happens: a copy, the file is at both places
C8_Witness ==
    /\ last.op = "label"
    /\ move_mode = "copy"
    /\ last.path \in DOMAIN files
    /\ last.target \in DOMAIN files
    /\ files[last.target] = files[last.path]

\* rows starts with the rows of prefix
StartsWith(rows, prefix) ==
    Len(rows) >= Len(prefix) /\ SubSeq(rows, 1, Len(prefix)) = prefix

\* C9: the header is written only when the log file is absent; a successful
\* classification and a skip each append exactly one row; an undo removes
\* exactly the last row; the header and the rows the log held when the
\* session started are never removed.
C9_LogShape ==
    [][/\ last'.op = "startup" =>
            log' = (IF log_exists THEN log ELSE <<Header>>)
       /\ last'.op \in {"label", "skip"} =>
            (Len(log') = Len(log) + 1 /\ StartsWith(log', log))
       /\ last'.op = "undo" =>
            (Len(log') = Len(log) - 1 /\ StartsWith(log, log'))
       /\ phase' = "run" =>
            (log_exists' /\ log'[1] = Header /\ StartsWith(log', log0'))]_vars

\* C9 happens: the log held a data row when the session started, and an
\* undo has just taken the log back to exactly those rows
C9_Witness ==
    /\ last.op = "undo"
    /\ Len(log0) >= 2
    /\ log = log0

\* C10: a relative label dest is resolved against the sorted root, which is
\* the parent of the source directory when --sorted-root is not given; an
\* absolute dest is used unchanged.
C10_DestResolution ==
    phase = "run" =>
        \A i \in 1..Len(Config) :
            labels[i].dest =
                IF is_absolute(Config[i].dest) THEN Config[i].dest
                ELSE IF sorted_root_arg # NoDir
                     THEN JoinDir(sorted_root_arg, Config[i].dest)
                     ELSE JoinDir(ParentDir(SourceDir), Config[i].dest)

\* C7: after undo_last the file in the player and the item the next label or
\* skip key acts on are the same file, the undone original path.
C7_UndoLoadsCurrent ==
    last.op = "undo" => (player_source = last.path /\ current_path = last.path)

\* C1: a successful label_current followed at once by undo_last leaves the
\* work queue (X first, then the items that were waiting), the log rows and
\* the filesystem as they were before the classify; so does repeating it.
C1_UndoRoundTrip ==
    (last.op = "undo" /\ snap.valid) =>
        /\ current_path = snap.current
        /\ queue = snap.queue
        /\ log = snap.log
        /\ files = snap.files
        /\ dirs = snap.dirs

\* C2: once skip_current has logged F, F's skip row stays in the log for the
\* rest of the session, so a queue built from the log never contains F.
C2_SkipsPermanent ==
    \A F \in skipped :
        /\ \E i \in 2..Len(log) : log[i].original_path = F /\ log[i].action = "skip"
        /\ F \notin Range(build_queue)

\* C3: every data row of the log records the actual disposition of its
\* original_path, and no original_path is in two data rows.
C3_LogDisposition ==
    /\ \A i \in 2..Len(log) :
          LET r == log[i]
          IN /\ r.action = "move" =>
                  (r.dest_path \in DOMAIN files /\ r.original_path \notin DOMAIN files)
             /\ r.action = "copy" =>
                  (r.dest_path \in DOMAIN files /\ r.original_path \in DOMAIN files)
             /\ r.action = "skip" =>
                  /\ r.original_path \in DOMAIN files
                  /\ r.original_path \notin Range(Work(current_path, queue))
    /\ \A i, j \in 2..Len(log) :
          log[i].original_path = log[j].original_path => i = j

\* C11: k successful label_current in a row followed by k undo_last return
\* each of the k files to its original path, remove exactly the k rows those
\* labels appended and the k undo-stack entries they pushed, the most recent
\* first: after u of the k undos, what the first k - u labels did is still
\* there and what the last u did is gone.
C11_MultiLevelUndo ==
    run.valid =>
        LET r == run.k - run.u
        IN /\ undo_stack = run.stack \o SubSeq(run.pairs, 1, r)
           /\ Len(log) = Len(run.log) + r
           /\ StartsWith(log, run.log)
           /\ \A i \in 1..r :
                 /\ log[Len(run.log) + i].original_path = run.pairs[i][1]
                 /\ log[Len(run.log) + i].dest_path = run.pairs[i][2]
                 /\ run.pairs[i][2] \in DOMAIN files
           /\ \A i \in (r + 1)..run.k :
                 /\ run.pairs[i][1] \in DOMAIN files
                 /\ files[run.pairs[i][1]] = run.files[run.pairs[i][1]]
                 /\ run.pairs[i][2] \notin DOMAIN files
           /\ run.u = run.k => (files = run.files /\ log = run.log)

\* C11 happens: two labels in a row and the two undos after them
C11_Witness ==
    /\ run.valid
    /\ run.k = 2
    /\ run.u = 2
    /\ last.op = "undo"
    /\ last.path = run.pairs[1][1]

\* C12: every move or copy of label_current and every move back of undo_last
\* is made after release_media of the same handler, so no file is moved,
\* copied or overwritten while the player holds a file.
C12_ReleaseBeforeMove ==
    [][/\ files' # files => fs_op'.done
       /\ last'.op \in {"label", "label_perm", "undo", "undo_fail"} => fs_op'.done
       /\ fs_op'.done => (fs_op'.before = player_source /\ fs_op'.during = None)]_vars

\* C12 happens: the player held a file when Backspace was pressed and held
\* none when the file was moved back
C12_Witness ==
    /\ last.op = "undo"
    /\ fs_op.done
    /\ fs_op.before # None
    /\ fs_op.during = None
    /\ last.path \in DOMAIN files

\* C13: if the move back of undo_last fails, the log, the queue and the undo
\* stack are as they were before the undo was attempted.
C13_TransactionalUndo ==
    [][last'.op = "undo_fail" =>
        (log' = log /\ queue' = queue /\ undo_stack' = undo_stack)]_vars

\* C14: undo_last with an empty undo stack, and label_current or skip_current
\* without a current item, change nothing: queue, current item, undo stack,
\* log rows, filesystem and the player's file stay as they are.
C14_NoOpGuards ==
    [][/\ (undo_stack = <<>> /\ last'.op \in {"undo", "undo_fail", "undo_none"}) =>
            last'.op = "undo_none"
       /\ (current_path = None /\ last'.op \in {"label", "label_perm", "label_none"}) =>
            last'.op = "label_none"
       /\ (current_path = None /\ last'.op \in {"skip", "skip_none"}) =>
            last'.op = "skip_none"
       /\ last'.op \in {"undo_none", "label_none", "skip_none"} =>
            UNCHANGED <<queue, current_path, undo_stack, log, files, dirs,
                        player_source>>]_vars

\* C14 happens: Backspace with nothing to undo while a file is playing and
\* another one waits
C14_Witness ==
    /\ last.op = "undo_none"
    /\ undo_stack = <<>>
    /\ current_path # None
    /\ player_source = current_path
    /\ queue # <<>>

\* C15: when the player reports invalid media, the item that is abandoned is
\* the file reported invalid, the next queued item becomes current as in a
\* normal advance, and the log, the undo stack and the filesystem are
\* unchanged.
C15_UnplayableMedia ==
    [][last'.op = "invalid_media" =>
        /\ current_path = player_source
        /\ Work(current_path', queue') = queue
        /\ log' = log
        /\ undo_stack' = undo_stack
        /\ files' = files]_vars

\* C17: while the window runs, if there is no current item then the queue is
\* empty.
C17_NoStrandedWork ==
    (phase = "run" /\ current_path = None) => queue = <<>>

\* The original paths held in the undo stack, in stack order.
Originals == [i \in 1..Len(undo_stack) |-> undo_stack[i][1]]

\* The queue, the current item and the originals of the undo stack together.
Items == Work(current_path, queue) \o Originals

\* C18: each file path occurs at most once across the queue, the current
\* item and the original paths held in the undo stack.
C18_NoDuplicates ==
    \A i, j \in 1..Len(Items) : Items[i] = Items[j] => i = j

\* C18 witness: an undo put its file back at the head of the queue while an
\* older entry remains on the undo stack.
C18_Witness ==
    /\ last.op = "undo"
    /\ queue # <<>>
    /\ Head(queue) = last.path
    /\ undo_stack # <<>>
    /\ Len(Items) = 2

\* C19: in a session of successful label and skip actions only, after n of
\* them the items still waiting are the initial queue without its first n
\* items, in the initial order, the current one first, and the log has gained
\* n rows, the i-th for the i-th file of the initial queue; so after as many
\* actions as the initial queue is long there is no current item and the
\* queue is empty.
C19_SessionCompletion ==
    sess.valid =>
        /\ sess.n <= Len(sess.queue0)
        /\ Work(current_path, queue) =
              SubSeq(sess.queue0, sess.n + 1, Len(sess.queue0))
        /\ Len(log) = Len(log0) + sess.n
        /\ StartsWith(log, log0)
        /\ \A i \in 1..sess.n :
              log[Len(log0) + i].original_path = sess.queue0[i]
        /\ sess.n = Len(sess.queue0) => (current_path = None /\ queue = <<>>)

\* C19 witness: a session of two files ended with a label and a skip.
C19_Witness ==
    /\ sess.valid
    /\ Len(sess.queue0) = 2
    /\ sess.n = 2
    /\ last.op \in {"label", "skip"}
    /\ undo_stack # <<>>
    /\ skipped # {}

\* While the user holds the slider, no position notification changes the
\* value of the slider.
SliderHeld ==
    (dragging /\ last'.op = "position") => slider_value' = slider_value

\* While the user holds the slider, no handler but the release seeks.
NoSeekWhileHeld ==
    (dragging /\ last'.op # "slider_released") => ~seek'.issued

\* The release seeks to the value of the slider.
SeekOnRelease ==
    last'.op = "slider_released" => (seek'.issued /\ seek'.to = slider_value)

\* C16: between a slider-pressed event and the following slider-released
\* event, whatever events are interleaved, no position notification changes
\* the value of the slider and no seek is issued; the release issues a seek
\* to the value of the slider.
C16_ScrubControl ==
    [][SliderHeld /\ NoSeekWhileHeld /\ SeekOnRelease]_vars

====
